---- MODULE Spec2Model ----
(***************************************************************************)
(* Gesture-driven Christmas tree: the debounced mode state machine of      *)
(* App.tsx (useDebouncedState + handleGestureUpdate), the gesture sampler  *)
(* of HandManager (predict), the Focus Selector (FocusManager) and the     *)
(* particle layout (generateParticles).                                    *)
(*                                                                         *)
(* Time is counted in milliseconds.  Coordinates of gesture samples are    *)
(* counted in thousandths (0.5 is 500), angles in milliradians.            *)
(***************************************************************************)
EXTENDS Integers, Sequences, FiniteSets, TLC

\* ------------------------------------------------------------------ bounds
\* Largest number of uploaded photos the model follows.
MaxPhotos == 2
\* Granularity of the passage of time, in ms.
Quantum == 150
\* Largest number of quanta that pass in one step of time.
MaxQuanta == 2
\* Cap of the count of repeated samples.
HeldCap == 1
\* Largest number of frames whose particle transforms the model follows.
MaxFrames == 2

\* ------------------------------------------------------- program constants
\* useDebouncedState<AppMode>(AppMode.TREE, 300)
Delay == 300
\* const COUNT = 1200
COUNT == 1200

\* enum AppMode
TREE == "TREE"
SCATTER == "SCATTER"
ZOOM == "ZOOM"
AppMode == {TREE, SCATTER, ZOOM}

\* HandGestureData['gesture']
GestureCategories == {"Closed_Fist", "Open_Palm", "Pointing_Up", "Unknown", "Pinch"}

\* useState<string | null>(null): the null focus id.  Ids are pairs
\* <<prefix, index>>: `p-photo-${i}`, `p-${i}`, 'star'.
NoId == <<"null", 0>>

Min(a, b) == IF a < b THEN a ELSE b
Max(a, b) == IF a > b THEN a ELSE b

VARIABLES
    state,           \* useDebouncedState: the committed value (App's `mode`)
    tempState,       \* useDebouncedState: the pending value
    timers,          \* outstanding setTimeout handlers: [value, due]
    handPos,         \* App: handPos
    photos,          \* App: photos (object URLs, here their serial numbers)
    particles,       \* App: particles
    hoveredPhotoId,  \* App: hoveredPhotoId (the focus id)
    onGestureUpdate, \* HandManager: the handleGestureUpdate closure predict calls
    camera,          \* three.js camera position
    lastGesture,     \* history: category of the latest delivered sample
    pendingAge,      \* history: ms since tempState last changed (capped at Delay)
    seenRaw,         \* history: raw decisions produced so far
    held,            \* history: samples repeating the pending decision since it
                     \* last changed (capped at HeldCap)
    hm,              \* HandManager: position of init/startCamera/predict, the
                     \* isActive flag, isLoaded, error, refs, camera stream
    lastPredict,     \* history: outcome of the latest predict on a new frame
    live,            \* three.js: position, scale and rotation of the group of
                     \* each ParticleInstance, per entry of particles
    framing,         \* CameraRig: the framing of the latest frame
    clock,           \* R3F clock: elapsedTime (ms), and the frames so far
    rig              \* three.js camera as CameraRig leaves it: position in
                     \* thousandths of a unit, roll, lookAt target, and the
                     \* frames the rig has run

\* The variables App and the canvas own, with their history.
appVars == <<state, tempState, timers, handPos, photos, particles,
             hoveredPhotoId, onGestureUpdate, camera, lastGesture, pendingAge,
             seenRaw, held>>

vars == <<state, tempState, timers, handPos, photos, particles, hoveredPhotoId,
          onGestureUpdate, camera, lastGesture, pendingAge, seenRaw, held,
          hm, lastPredict, live, framing, clock, rig>>

\* The scene graph the frame callbacks write.
sceneVars == <<live, framing, clock, rig>>

\* ------------------------------------------------------------ vector maths
\* THREE.Vector3.dot
Dot(a, b) == a[1] * b[1] + a[2] * b[2] + a[3] * b[3]
\* THREE.Vector3.lengthSq; normalize() divides by (length() || 1)
LenSq(a) == IF Dot(a, a) = 0 THEN 1 ELSE Dot(a, a)

\* a / sqrt(A) > b / sqrt(B), for integers a, b and positive A, B: the
\* comparison `dot > maxDot` of two dot products with normalised vectors
\* (the camera's length is a common positive factor).
GtNorm(a, A, b, B) ==
    IF a >= 0 /\ b >= 0 THEN a * a * B > b * b * A
    ELSE IF a >= 0 THEN TRUE
    ELSE IF b >= 0 THEN FALSE
    ELSE a * a * B < b * b * A

\* maxDot > 0.65, maxDot = d / (sqrt(C) * sqrt(P)); 0.65 = 13/20
OverThreshold(d, C, P) == d > 0 /\ 400 * d * d > 169 * C * P

\* --------------------------------------------------------- generateParticles
\* Photo i of helixCount n (i counted from 0 as in the code): the helix
\* position [cos(theta) * r, y, sin(theta) * r], rounded to integers.
TreePosTable ==
    <<  << <<-9, -9, 7>> >>,
        << <<-9, -9, 7>>, <<-7, -1, -5>> >>,
        << <<-9, -9, 7>>, <<-9, -4, -2>>, <<-4, 2, -6>> >>,
        << <<-9, -9, 7>>, <<10, -5, 0>>, <<-7, -1, -5>>, <<2, 3, 7>> >> >>
HelixPos(i, n) == TreePosTable[n][i + 1]

\* Photo i of helixCount n: -theta + Math.PI / 2, in milliradians.
RotationTable ==
    <<  << -942 >>,
        << -942, -21049 >>,
        << -942, -14347, -27751 >>,
        << -942, -10996, -21049, -31102 >> >>
HelixRotation(i, n) == RotationTable[n][i + 1]

\* Math.random() draws of the scatter position of a photo (a point of the
\* sphere of radius 15).
ScatterChoices == { <<0, 0, 10>>, <<-9, 0, -6>> }

\* One entry of the particle array.  The array is kept run-length encoded:
\* an entry stands for `count` consecutive particles, which is 1 for a photo
\* and for the star, and COUNT for the run of ornaments p-0 .. p-(COUNT-1)
\* (spheres, cubes, bells and snowflakes at random places, none a photo; the
\* entry carries the draws of one of them).  Positions are in scene units,
\* scales in thousandths, rotations in milliradians.
\* Variant: photo ids are numbered after the photos already counted.
PhotoParticleOffsetId(i, n, rnd) ==
    [id |-> <<"p-photo", n + i>>, type |-> "photo", count |-> 1,
     treePos |-> HelixPos(i, n), scatterPos |-> rnd[i + 1],
     rotation |-> <<0, HelixRotation(i, n), 0>>, scale |-> 800]

\* Variant: every photo particle is given the id of the first.
PhotoParticleSameId(i, n, rnd) ==
    [id |-> <<"p-photo", 0>>, type |-> "photo", count |-> 1,
     treePos |-> HelixPos(i, n), scatterPos |-> rnd[i + 1],
     rotation |-> <<0, HelixRotation(i, n), 0>>, scale |-> 800]

PhotoParticle(i, n, rnd) ==
    [id |-> <<"p-photo", i>>, type |-> "photo", count |-> 1,
     treePos |-> HelixPos(i, n), scatterPos |-> rnd[i + 1],
     rotation |-> <<0, HelixRotation(i, n), 0>>, scale |-> 800]

\* Variant: the ornament loop runs `i <= COUNT`.
OrnamentsInclusive ==
    [id |-> <<"p", 0>>, type |-> "ornament", count |-> COUNT + 1,
     treePos |-> <<0, 0, 0>>, scatterPos |-> <<0, 0, 0>>,
     rotation |-> <<1571, 785, 0>>, scale |-> 700]

Ornaments ==
    [id |-> <<"p", 0>>, type |-> "ornament", count |-> COUNT,
     treePos |-> <<0, 0, 0>>, scatterPos |-> <<0, 0, 0>>,
     rotation |-> <<1571, 785, 0>>, scale |-> 700]

TopStar ==
    [id |-> <<"star", 0>>, type |-> "star", count |-> 1,
     treePos |-> <<0, 13, 0>>, scatterPos |-> <<0, 0, 0>>,
     rotation |-> <<0, 0, 0>>, scale |-> 1500]

\* generateParticles(photos); rnd[i] is the scatter draw of photo i - 1.
generateParticles(ph, rnd) ==
    [i \in 1..Len(ph) |-> PhotoParticle(i - 1, Len(ph), rnd)]
      \o << Ornaments, TopStar >>

\* ------------------------------------------------------------- FocusManager
\* Variant: `dot >= maxDot`, the last of equal candidates wins.
RECURSIVE ForEachPhotoLastWins(_, _, _, _, _)
ForEachPhotoLastWins(pp, mode, cam, k, best) ==
    IF k > Len(pp) THEN best
    ELSE LET pos(j) == IF mode = TREE THEN pp[j].treePos ELSE pp[j].scatterPos
             better == best = 0
                       \/ ~GtNorm(Dot(cam, pos(best)), LenSq(pos(best)),
                                  Dot(cam, pos(k)), LenSq(pos(k)))
         IN  ForEachPhotoLastWins(pp, mode, cam, k + 1,
                                  IF better THEN k ELSE best)

\* photoParticles.forEach: index (into pp) of the best photo after visiting
\* pp[k..]; best = 0 stands for bestId = null, maxDot = -Infinity.
RECURSIVE ForEachPhoto(_, _, _, _, _)
ForEachPhoto(pp, mode, cam, k, best) ==
    IF k > Len(pp) THEN best
    ELSE LET pos(j) == IF mode = TREE THEN pp[j].treePos ELSE pp[j].scatterPos
             better == best = 0
                       \/ GtNorm(Dot(cam, pos(k)), LenSq(pos(k)),
                                 Dot(cam, pos(best)), LenSq(pos(best)))
         IN  ForEachPhoto(pp, mode, cam, k + 1, IF better THEN k ELSE best)

\* Variant: no early return while zoomed.
FocusManagerNoFreeze(mode, parts, cam, hovered) ==
    LET photoParticles == SelectSeq(parts, LAMBDA p : p.type = "photo")
    IN  IF Len(photoParticles) = 0 THEN hovered
        ELSE LET best == ForEachPhoto(photoParticles, mode, cam, 1, 0)
                 pos  == IF mode = TREE THEN photoParticles[best].treePos
                         ELSE photoParticles[best].scatterPos
             IN  IF OverThreshold(Dot(cam, pos), LenSq(cam), LenSq(pos))
                 THEN photoParticles[best].id
                 ELSE NoId

\* The useFrame callback of FocusManager: the focus id after the frame.
FocusManager(mode, parts, cam, hovered) ==
    IF mode = ZOOM THEN hovered
    ELSE LET photoParticles == SelectSeq(parts, LAMBDA p : p.type = "photo")
         IN  IF Len(photoParticles) = 0 THEN hovered
             ELSE LET best == ForEachPhoto(photoParticles, mode, cam, 1, 0)
                      pos  == IF mode = TREE THEN photoParticles[best].treePos
                              ELSE photoParticles[best].scatterPos
                  IN  IF OverThreshold(Dot(cam, pos), LenSq(cam), LenSq(pos))
                      THEN photoParticles[best].id
                      ELSE NoId

\* ---------------------------------------------------------------- CameraRig
\* Camera positions the rig's smoothing passes through; (0,0,5) is the
\* renderer's default position.
CamPositions == { <<0, 0, 5>>, <<-18, -9, 14>>, <<-20, 0, -14>> }

\* The useFrame callback of CameraRig: the positions the camera can take
\* after a frame (the smoothed orbit depends on the hand position).
CameraRig(mode, hand, cam) == CamPositions

\* Variant: the zoom branch orbits as the tree branch does.
FramingZoomOrbits(mode) ==
    IF mode = SCATTER
    THEN [kind |-> "orbit", baseDistance |-> 30, lerp |-> 100]
    ELSE [kind |-> "orbit", baseDistance |-> 28, lerp |-> 100]

\* Variant: the tree branch locks the camera as the zoom branch does.
FramingTreeLocks(mode) ==
    IF mode = SCATTER
    THEN [kind |-> "orbit", baseDistance |-> 30, lerp |-> 100]
    ELSE [kind |-> "zoom", target |-> <<0, 0, 10>>, lerp |-> 50]

\* The branch of CameraRig's callback: an orbit around the origin at
\* baseDistance, steered by the hand, or the lock toward (0, 0, 10); lerp is
\* the smoothing factor in thousandths.
Framing(mode) ==
    IF mode = SCATTER
    THEN [kind |-> "orbit", baseDistance |-> 30, lerp |-> 100]
    ELSE IF mode = TREE
    THEN [kind |-> "orbit", baseDistance |-> 28, lerp |-> 100]
    ELSE [kind |-> "zoom", target |-> <<0, 0, 10>>, lerp |-> 50]

\* -------------------------------------------------------- useDebouncedState
\* Variant: another initial mode.
InitialValueScatter == SCATTER

\* useDebouncedState<AppMode>(AppMode.TREE, 300): the initial value
InitialValue == TREE

\* Variant: the new handler inherits the deadline of the one it replaces.
EffectTimersKeepDeadline(ts, old, next) ==
    IF next = old THEN ts
    ELSE IF ts = {} THEN { [value |-> next, due |-> Delay] }
    ELSE { [value |-> next, due |-> t.due] : t \in ts }

\* Variant: the effect runs after every sample (no dependency list).
EffectTimersEveryRender(ts, old, next) == { [value |-> next, due |-> Delay] }

\* Variant: the effect has no cleanup (no clearTimeout).
EffectTimersNoCleanup(ts, old, next) ==
    IF next = old THEN ts ELSE ts \cup { [value |-> next, due |-> Delay] }

\* The effect on [tempState, delay]: React re-runs it only when tempState
\* changed; its cleanup clears the previous handler, then setTimeout.
EffectTimers(ts, old, next) ==
    IF next = old THEN ts ELSE { [value |-> next, due |-> Delay] }

\* The setTimeout handler: setState(tempState)
TimeoutHandler(t) == t.value

\* -------------------------------------------------------- handleGestureUpdate
\* Variant: the closed fist grabs whenever the mode is not zoom.
RawDecisionGrabAnywhere(gesture, currentMode, hovered) ==
    CASE gesture = "Closed_Fist" -> IF currentMode # ZOOM THEN ZOOM ELSE TREE
      [] gesture = "Open_Palm"   -> SCATTER
      [] gesture = "Pinch"       -> ZOOM
      [] OTHER                   -> TREE

\* Variant: pointing leaves the mode as it is.
RawDecisionPointingHolds(gesture, currentMode, hovered) ==
    CASE gesture = "Closed_Fist" ->
            IF currentMode # ZOOM /\ hovered # NoId THEN ZOOM ELSE TREE
      [] gesture = "Open_Palm"   -> SCATTER
      [] gesture = "Pinch"       -> ZOOM
      [] gesture = "Pointing_Up" -> currentMode
      [] OTHER                   -> TREE

\* The switch on data.gesture: the value setMode stores; currentMode is the
\* argument of the functional update (the pending value), hovered the
\* hoveredPhotoId the callback closed over.
RawDecision(gesture, currentMode, hovered) ==
    CASE gesture = "Closed_Fist" ->
            IF currentMode # ZOOM /\ hovered # NoId THEN ZOOM ELSE TREE
      [] gesture = "Open_Palm"   -> SCATTER
      [] gesture = "Pinch"       -> ZOOM
      [] gesture = "Pointing_Up" -> TREE
      [] gesture = "Unknown"     -> TREE
      [] OTHER                   -> TREE

\* Variant: predict calls the handler of the latest render.
ClosureHoveredLatest == hoveredPhotoId

\* The hoveredPhotoId handleGestureUpdate reads: the one of the closure
\* HandManager's predict holds (its effect has no dependencies, so predict
\* and its onGestureUpdate prop are those of the first render).
ClosureHovered == onGestureUpdate.hoveredPhotoId

handleGestureUpdate(data) ==
    LET next == RawDecision(data.gesture, tempState, ClosureHovered)
    IN  /\ handPos' = [x |-> data.x, y |-> data.y,
                       z |-> IF data.z = 0 THEN 0 ELSE data.z,
                       rotation |-> data.rotation]
        /\ tempState' = next
        /\ timers' = EffectTimers(timers, tempState, next)
        /\ pendingAge' = IF next = tempState THEN pendingAge ELSE 0
        /\ seenRaw' = seenRaw \cup {next}
        /\ lastGesture' = data.gesture
        /\ held' = IF next = tempState THEN Min(HeldCap, held + 1) ELSE 0
        /\ UNCHANGED <<state, photos, particles, hoveredPhotoId,
                       onGestureUpdate, camera>>

\* ------------------------------------------------------- HandManager.predict
\* categoryName values of the recognizer; "None" is its no-gesture label.
ModelGestures == {"Closed_Fist", "Open_Palm", "Pointing_Up", "Thumb_Up", "None"}

\* Landmark sets the recognizer returns (landmarks 0, 9, 4, 8), in
\* thousandths of the image; the second hand is at the right image border,
\* where landmark coordinates exceed 1.
HandPoses ==
    { [palmBase |-> <<500, 800>>, middleFingerKnuckle |-> <<500, 600>>,
       thumbTip |-> <<400, 600>>, indexTip |-> <<520, 450>>],
      [palmBase |-> <<1020, 500>>, middleFingerKnuckle |-> <<1060, 500>>,
       thumbTip |-> <<1030, 480>>, indexTip |-> <<1050, 470>>] }

\* Math.sqrt, rounded down, digit by digit (arguments stay below 1600^2)
Sqrt(n) ==
    LET h == CHOOSE a \in 0..15 :
                 (100 * a) * (100 * a) <= n /\ n < (100 * a + 100) * (100 * a + 100)
        t == CHOOSE b \in 0..9 :
                 LET r == 100 * h + 10 * b IN r * r <= n /\ n < (r + 10) * (r + 10)
        u == CHOOSE c \in 0..9 :
                 LET r == 100 * h + 10 * t + c IN r * r <= n /\ n < (r + 1) * (r + 1)
    IN  100 * h + 10 * t + u

\* Math.atan2(dy, dx) in milliradians: exact on the axes, elsewhere within
\* 4 milliradians (atan q = q * pi/4 + 0.273 * q * (1 - q) for 0 <= q <= 1).
Atan2(dy, dx) ==
    CASE dy = 0 /\ dx >= 0 -> 0
      [] dy = 0 /\ dx < 0  -> 3142
      [] dx = 0 /\ dy > 0  -> 1571
      [] dx = 0 /\ dy < 0  -> -1571
      [] OTHER ->
           LET ax  == IF dx < 0 THEN -dx ELSE dx
               ay  == IF dy < 0 THEN -dy ELSE dy
               q   == IF ay <= ax THEN (1000 * ay) \div ax ELSE (1000 * ax) \div ay
               at  == (785 * q + (273 * q * (1000 - q)) \div 1000) \div 1000
               a   == IF ay <= ax THEN at ELSE 1571 - at
               b   == IF dx > 0 THEN a ELSE 3142 - a
           IN  IF dy > 0 THEN b ELSE -b

\* Priority logic of the gesture mapping; dist2 is the squared distance of
\* thumb tip and index tip (distance < 0.06).
MappedGesture(gestureName, dist2) ==
    IF gestureName = "Closed_Fist" THEN "Closed_Fist"
    ELSE IF gestureName = "Open_Palm" THEN "Open_Palm"
    ELSE IF dist2 < 60 * 60 THEN "Pinch"
    ELSE IF gestureName = "Pointing_Up" THEN "Pointing_Up"
    ELSE "Unknown"

\* The sample predict hands to onGestureUpdate for a recognised hand.
HandSample(gestureName, lm) ==
    LET centerX  == (lm.palmBase[1] + lm.middleFingerKnuckle[1]) \div 2
        centerY  == (lm.palmBase[2] + lm.middleFingerKnuckle[2]) \div 2
        dx       == lm.middleFingerKnuckle[1] - lm.palmBase[1]
        dy       == lm.middleFingerKnuckle[2] - lm.palmBase[2]
        handSize == Sqrt(dx * dx + dy * dy)
        zRaw     == (handSize - 50) * 4
        tx       == lm.thumbTip[1] - lm.indexTip[1]
        ty       == lm.thumbTip[2] - lm.indexTip[2]
    IN  [gesture |-> MappedGesture(gestureName, tx * tx + ty * ty),
         x |-> 1000 - centerX, y |-> centerY,
         z |-> Max(0, Min(1000, zRaw)), rotation |-> Atan2(dy, dx)]

\* Variant: the sample for a frame without a hand lies in the corner.
NoHandSampleOrigin == [gesture |-> "Unknown", x |-> 0, y |-> 0, z |-> 0, rotation |-> 0]

\* The sample for a frame without a hand.
NoHandSample == [gesture |-> "Unknown", x |-> 500, y |-> 500, z |-> 0, rotation |-> 0]

\* predict on a new video frame: hands is results.gestures.length
predict(hands, gestureName, lm) ==
    handleGestureUpdate(IF hands > 0 THEN HandSample(gestureName, lm)
                        ELSE NoHandSample)

\* Variant: the catch block hands on the sample of a frame without a hand.
CatchBlockNeutralSample == handleGestureUpdate(NoHandSample)

\* The catch block of predict: console.warn, nothing is handed on.
CatchBlock == UNCHANGED appVars

\* ----------------------------------------------------------- ParticleInstance
\* Live transforms are in thousandths of a scene unit (positions), thousandths
\* (scales) and milliradians (rotations); delta is in ms and a lerp factor in
\* thousandths, so that delta * 15 is both `delta * 15` of the code and its
\* value in thousandths.

\* Math.cos of an angle in milliradians, in thousandths
Cos(a) ==
    LET r  == a % 6283
        x  == IF r > 3142 THEN 6283 - r ELSE r
        y  == IF x > 1571 THEN 3142 - x ELSE x
        y2 == (y * y) \div 1000
        y4 == (y2 * y2) \div 1000
        y6 == (y4 * y2) \div 1000
        c  == 1000 - y2 \div 2 + y4 \div 24 - y6 \div 720
    IN  IF x > 1571 THEN -c ELSE c

\* Math.sin
Sin(a) == Cos(a - 1571)

\* THREE.MathUtils.lerp(x, y, t) and Vector3.lerp(v, alpha): the factor is
\* used as it comes, without clamping.
Lerp(x, y, t) == x + ((y - x) * t) \div 1000

LerpVector(v, w, alpha) ==
    << Lerp(v[1], w[1], alpha), Lerp(v[2], w[2], alpha), Lerp(v[3], w[3], alpha) >>

\* ------------------------------------------------- CameraRig, with numbers
\* The camera the Canvas creates: at (0, 0, 5), looking down -Z at the
\* origin, level.
DefaultCamera ==
    [position |-> <<0, 0, 5000>>, roll |-> 0, lookAt |-> <<0, 0, 0>>,
     frames |-> 0]

\* (camX, targetPolar, camZ): the point of the orbit the hand steers to;
\* targetAzimuth is in milliradians (PI * 2.5 = 7.854).
OrbitTarget(hand, baseDistance) ==
    LET targetAzimuth == ((hand.x - 500) * 7854) \div 1000
        targetPolar   == (hand.y - 500) * 35
    IN  << Sin(targetAzimuth) * baseDistance, targetPolar,
           Cos(targetAzimuth) * baseDistance >>

\* Variant: the roll of the hand is given to the camera after lookAt.
CameraRigFrameRolls(mode, hand, r) ==
    LET f == Framing(mode)
        goal == IF f.kind = "orbit" THEN OrbitTarget(hand, f.baseDistance)
                ELSE << f.target[1] * 1000, f.target[2] * 1000,
                        f.target[3] * 1000 >>
    IN  [position |-> LerpVector(r.position, goal, f.lerp),
         roll |-> hand.rotation, lookAt |-> <<0, 0, 0>>,
         frames |-> r.frames + 1]

\* The useFrame callback of CameraRig on the camera r: rotation.z = 0, the
\* blend of the position toward the orbit point or toward the zoom point,
\* and lookAt(0, 0, 0), which keeps the camera's up vector (0, 1, 0) and so
\* leaves it level.  handZ and handRotation are not read.
CameraRigFrame(mode, hand, r) ==
    LET f == Framing(mode)
        goal == IF f.kind = "orbit" THEN OrbitTarget(hand, f.baseDistance)
                ELSE << f.target[1] * 1000, f.target[2] * 1000,
                        f.target[3] * 1000 >>
    IN  [position |-> LerpVector(r.position, goal, f.lerp),
         roll |-> 0, lookAt |-> <<0, 0, 0>>,
         frames |-> r.frames + 1]

\* Object3D.lookAt(target) of a group at position pos: the Euler angles
\* (order XYZ) of the orientation whose +Z axis points to the target.  The
\* direction is taken in fifths of a unit.
LookAt(pos, target) ==
    LET dx == (target[1] - pos[1]) \div 200
        dy == (target[2] - pos[2]) \div 200
        dz == (target[3] - pos[3]) \div 200
        len == Sqrt(dx * dx + dy * dy + dz * dz)
    IN  << Atan2(-dy, dz), Atan2(dx, Sqrt(dy * dy + dz * dz)),
           Atan2(dx * dy, dz * len) >>

Scaled(v, k) == << v[1] * k, v[2] * k, v[3] * k >>

isCandidate(data, hovered) == data.id = hovered
isSelected(data, mode, hovered) == isCandidate(data, hovered) /\ mode = ZOOM
isHighlighted(data, mode, hovered) == isCandidate(data, hovered) /\ mode # ZOOM
isPhoto(data) == data.type = "photo"

\* Variant: the selected photo keeps its base scale.
TargetZoomKeepsScale(data, mode, hovered, time) ==
    LET targetScale == IF isHighlighted(data, mode, hovered)
                       THEN (data.scale * 13) \div 10 ELSE data.scale
    IN  CASE mode = TREE ->
               [pos |-> Scaled(data.treePos, 1000), scale |-> targetScale,
                rot |-> data.rotation]
          [] mode = SCATTER ->
               [pos |-> << 1000 * data.scatterPos[1]
                             + Cos(time \div 5 + 1000 * data.scatterPos[2]) \div 20,
                           1000 * data.scatterPos[2]
                             + Sin(time \div 5 + 1000 * data.scatterPos[1]) \div 20,
                           1000 * data.scatterPos[3] >>,
                scale |-> targetScale, rot |-> data.rotation]
          [] mode = ZOOM ->
               IF isSelected(data, mode, hovered) /\ isPhoto(data)
               THEN [pos |-> <<0, 0, 6000>>, scale |-> targetScale,
                     rot |-> <<0, 0, 0>>]
               ELSE [pos |-> << 3500 * data.scatterPos[1],
                                3500 * data.scatterPos[2],
                                1000 * data.scatterPos[3] - 40000 >>,
                     scale |-> targetScale, rot |-> data.rotation]

\* targetPos, targetScale and targetRotX/Y/Z of the callback; time is
\* state.clock.elapsedTime in ms.
Target(data, mode, hovered, time) ==
    LET targetScale == IF isHighlighted(data, mode, hovered)
                       THEN (data.scale * 13) \div 10 ELSE data.scale
    IN  CASE mode = TREE ->
               [pos |-> Scaled(data.treePos, 1000), scale |-> targetScale,
                rot |-> data.rotation]
          [] mode = SCATTER ->
               [pos |-> << 1000 * data.scatterPos[1]
                             + Cos(time \div 5 + 1000 * data.scatterPos[2]) \div 20,
                           1000 * data.scatterPos[2]
                             + Sin(time \div 5 + 1000 * data.scatterPos[1]) \div 20,
                           1000 * data.scatterPos[3] >>,
                scale |-> targetScale, rot |-> data.rotation]
          [] mode = ZOOM ->
               IF isSelected(data, mode, hovered) /\ isPhoto(data)
               THEN [pos |-> <<0, 0, 6000>>, scale |-> 5000,
                     rot |-> <<0, 0, 0>>]
               ELSE [pos |-> << 3500 * data.scatterPos[1],
                                3500 * data.scatterPos[2],
                                1000 * data.scatterPos[3] - 40000 >>,
                     scale |-> targetScale, rot |-> data.rotation]

\* Variant: the fast factor for every candidate, in every mode.
lerpSpeedCandidate(data, mode, hovered, delta) ==
    IF isCandidate(data, hovered) /\ isPhoto(data)
    THEN delta * 15 ELSE (delta * 25) \div 10

\* const lerpSpeed = (isSelected && isPhoto) ? delta * 15 : delta * 2.5
lerpSpeed(data, mode, hovered, delta) ==
    IF isSelected(data, mode, hovered) /\ isPhoto(data)
    THEN delta * 15 ELSE (delta * 25) \div 10

\* The useFrame callback of one ParticleInstance: the transform of its group
\* after the frame.  cur is the transform before it, time the elapsed time of
\* the clock, cam the camera position the rig has set in this frame.
ParticleInstance(data, mode, hovered, cur, delta, time, cam) ==
    LET target   == Target(data, mode, hovered, time)
        speed    == lerpSpeed(data, mode, hovered, delta)
        position == LerpVector(cur.position, target.pos, speed)
        lerped   == IF mode = SCATTER /\ isPhoto(data)
                    THEN LookAt(position, Scaled(cam, 1000))
                    ELSE LerpVector(cur.rotation, target.rot, speed)
    IN  [position |-> position,
         scale    |-> Lerp(cur.scale, target.scale, speed),
         rotation |-> IF data.type \in {"diamond", "star"}
                      THEN << lerped[1], lerped[2] + delta \div 2, lerped[3] >>
                      ELSE lerped]

\* <group ref={meshRef} position={data.treePos}>: the transform of a newly
\* mounted instance (scale 1, no rotation).
MountedGroup(data) ==
    [position |-> Scaled(data.treePos, 1000), scale |-> 1000,
     rotation |-> <<0, 0, 0>>]

\* particles.map(p => <ParticleInstance key={p.id} .../>) after the array was
\* replaced: an instance whose key is still there is kept with the transform
\* of its group (the position prop is applied again when it changed); the
\* other instances are mounted.
Reconcile(oldParts, oldLive, newParts) ==
    [j \in 1..Len(newParts) |->
        LET same == { i \in 1..Len(oldParts) : oldParts[i].id = newParts[j].id }
        IN  IF same = {} THEN MountedGroup(newParts[j])
            ELSE LET i == CHOOSE i \in same : TRUE
                 IN  IF newParts[j].treePos # oldParts[i].treePos
                     THEN [oldLive[i] EXCEPT
                             !.position = Scaled(newParts[j].treePos, 1000)]
                     ELSE oldLive[i]]

\* ------------------------------------------------- HandManager: init, cleanup
\* hm.pc is the place where the chain init -> startCamera -> predict waits:
\*   "wasm"    await FilesetResolver.forVisionTasks
\*   "model"   await GestureRecognizer.createFromOptions
\*   "camera"  await navigator.mediaDevices.getUserMedia
\*   "video"   the 'loadeddata' listener is registered, the event is awaited
\*   "loop"    predict is scheduled (requestAnimationFrame)
\*   "failed"  the chain ended in a catch or in the else of startCamera
\*   "idle"    the chain ended without error and nothing is scheduled
NoError == "null"

\* useRef/useState of HandManager and `let isActive = true`, as init() is called
MountedHandManager ==
    [pc |-> "wasm", isActive |-> TRUE, isLoaded |-> FALSE, error |-> NoError,
     gestureRecognizer |-> "null", stream |-> "none", srcObject |-> FALSE,
     videoRef |-> TRUE]

\* setError: a state update of an unmounted component is dropped
setError(h, msg) == IF h.videoRef THEN [h EXCEPT !.error = msg] ELSE h

\* init after `await FilesetResolver.forVisionTasks`
initResolved(h, ok) ==
    IF ~ok
    THEN [(IF h.isActive
           THEN setError(h, "Failed to load AI model. Check connection.")
           ELSE h) EXCEPT !.pc = "failed"]
    ELSE IF ~h.isActive THEN [h EXCEPT !.pc = "idle"]
    ELSE [h EXCEPT !.pc = "model"]

\* Variant: without a camera API the error is set and predict is started.
startCameraRunsPredict(h, api) ==
    IF api THEN [h EXCEPT !.pc = "camera"]
    ELSE [setError(h, "Camera API not supported.") EXCEPT !.pc = "loop"]

\* startCamera up to its await; api is
\* navigator.mediaDevices && navigator.mediaDevices.getUserMedia
startCamera(h, api) ==
    IF api THEN [h EXCEPT !.pc = "camera"]
    ELSE [setError(h, "Camera API not supported.") EXCEPT !.pc = "failed"]

\* init after `await GestureRecognizer.createFromOptions`
initCreated(h, ok, api) ==
    IF ~ok
    THEN [(IF h.isActive
           THEN setError(h, "Failed to load AI model. Check connection.")
           ELSE h) EXCEPT !.pc = "failed"]
    ELSE LET r == [h EXCEPT !.gestureRecognizer = "open"]
         IN  IF r.isActive THEN startCamera([r EXCEPT !.isLoaded = TRUE], api)
             ELSE [r EXCEPT !.pc = "idle"]

\* startCamera after `await getUserMedia`
startCameraAnswered(h, ok) ==
    IF ~ok THEN [setError(h, "Camera access denied.") EXCEPT !.pc = "failed"]
    ELSE IF h.videoRef
         THEN [h EXCEPT !.stream = "live", !.srcObject = TRUE, !.pc = "video"]
         ELSE [h EXCEPT !.stream = "live", !.pc = "idle"]

\* The cleanup of the effect.  refSeen: videoRef.current is still the video
\* element when the cleanup reads it (React detaches the refs of an unmounted
\* tree around the time it runs the effect cleanups).
cleanup(h, refSeen) ==
    [h EXCEPT !.isActive = FALSE,
              !.stream = IF refSeen /\ h.srcObject /\ h.stream = "live"
                         THEN "stopped" ELSE h.stream,
              !.pc = IF h.pc = "loop" THEN "idle" ELSE h.pc,
              !.videoRef = FALSE]

\* ------------------------------------------------------------ timer, clock
\* The setTimeout handler of useDebouncedState runs.
Timeout(t) ==
    /\ t \in timers
    /\ t.due = 0
    /\ state' = TimeoutHandler(t)
    /\ timers' = timers \ {t}
    /\ UNCHANGED <<tempState, handPos, photos, particles, hoveredPhotoId,
                   onGestureUpdate, camera, lastGesture, pendingAge, seenRaw,
                   held>>

\* Time passes: at most dt ms, and not beyond the next due handler.
Tick(dt) ==
    LET d == IF timers = {} THEN dt
             ELSE Min(dt, CHOOSE m \in {t.due : t \in timers} :
                               \A t \in timers : m <= t.due)
    IN  /\ d > 0
        /\ timers' = { [t EXCEPT !.due = t.due - d] : t \in timers }
        /\ pendingAge' = Min(Delay, pendingAge + d)
        /\ UNCHANGED <<state, tempState, handPos, photos, particles,
                       hoveredPhotoId, onGestureUpdate, camera, lastGesture,
                       seenRaw, held>>

\* ------------------------------------------------------------- frame, upload
\* One rendered frame: the useFrame callbacks of CameraRig and FocusManager.
Frame(c) ==
    /\ c \in CameraRig(state, handPos, camera)
    /\ camera' = c
    /\ hoveredPhotoId' = FocusManager(state, particles, c, hoveredPhotoId)
    /\ UNCHANGED <<state, tempState, timers, handPos, photos, particles,
                   onGestureUpdate, lastGesture, pendingAge, seenRaw, held>>

\* handlePhotoUpload with k files, and the effect on [photos].
handlePhotoUpload(k, rnd) ==
    LET newPhotos == [i \in 1..k |-> Len(photos) + i]
        next      == photos \o newPhotos
    IN  /\ photos' = next
        /\ particles' = IF Len(next) > 0 THEN generateParticles(next, rnd)
                        ELSE particles
        /\ UNCHANGED <<state, tempState, timers, handPos, hoveredPhotoId,
                       onGestureUpdate, camera, lastGesture, pendingAge, seenRaw,
                       held>>

\* ------------------------------------------------------------ specification
Init ==
    /\ state = InitialValue
    /\ tempState = InitialValue
    /\ timers = { [value |-> InitialValue, due |-> Delay] }
    /\ handPos = [x |-> 500, y |-> 500, z |-> 0, rotation |-> 0]
    /\ photos = << >>
    /\ particles = generateParticles(<< >>, << >>)
    /\ hoveredPhotoId = NoId
    /\ onGestureUpdate = [hoveredPhotoId |-> NoId]
    /\ camera = <<0, 0, 5>>
    /\ lastGesture = "none"
    /\ pendingAge = 0
    /\ seenRaw = {}
    /\ held = 0
    /\ hm = MountedHandManager
    /\ lastPredict = "none"
    /\ live = [i \in 1..2 |-> MountedGroup(generateParticles(<<>>, <<>>)[i])]
    /\ framing = [kind |-> "none"]
    /\ clock = [elapsedTime |-> 0, frames |-> 0]
    /\ rig = DefaultCamera

\* predict runs on a new video frame and recognizeForVideo returns.
Sample ==
    /\ hm.pc = "loop" /\ hm.gestureRecognizer = "open" /\ hm.videoRef
    /\ \E hands \in {0, 1}, g \in ModelGestures, lm \in HandPoses :
           predict(hands, g, lm)
    /\ lastPredict' = "sample"
    /\ UNCHANGED <<hm, sceneVars>>

\* predict runs on a new video frame and recognizeForVideo throws; line 153
\* schedules the next predict as after every call.
Throw ==
    /\ hm.pc = "loop" /\ hm.gestureRecognizer = "open" /\ hm.videoRef
    /\ CatchBlock
    /\ lastPredict' = "threw"
    /\ UNCHANGED <<hm, sceneVars>>

Elapse ==
    /\ \E n \in 1..MaxQuanta : Tick(n * Quantum)
    /\ UNCHANGED <<hm, lastPredict, sceneVars>>

Fire ==
    /\ \E t \in timers : Timeout(t)
    /\ UNCHANGED <<hm, lastPredict, sceneVars>>

Render ==
    /\ hm.videoRef
    /\ \E c \in CamPositions : Frame(c)
    /\ UNCHANGED <<hm, lastPredict, sceneVars>>

Upload ==
    /\ hm.videoRef
    /\ \E k \in 0..(MaxPhotos - Len(photos)) :
           \E rnd \in [1..(Len(photos) + k) -> ScatterChoices] :
               handlePhotoUpload(k, rnd)
    /\ UNCHANGED <<hm, lastPredict, sceneVars>>

\* The promise of FilesetResolver.forVisionTasks settles.
Resolved ==
    /\ hm.pc = "wasm"
    /\ \E ok \in BOOLEAN : hm' = initResolved(hm, ok)
    /\ UNCHANGED <<appVars, lastPredict, sceneVars>>

\* The promise of GestureRecognizer.createFromOptions settles.
Created ==
    /\ hm.pc = "model"
    /\ \E ok \in BOOLEAN, api \in BOOLEAN : hm' = initCreated(hm, ok, api)
    /\ UNCHANGED <<appVars, lastPredict, sceneVars>>

\* The promise of getUserMedia settles.
Answered ==
    /\ hm.pc = "camera"
    /\ \E ok \in BOOLEAN : hm' = startCameraAnswered(hm, ok)
    /\ UNCHANGED <<appVars, lastPredict, sceneVars>>

\* The video element fires 'loadeddata': predict is entered for the first time.
LoadedData ==
    /\ hm.pc = "video"
    /\ hm' = [hm EXCEPT !.pc = "loop"]
    /\ UNCHANGED <<appVars, lastPredict, sceneVars>>

\* The application is unmounted: the cleanup of HandManager's effect and the
\* cleanup of the debounce effect (clearTimeout).
Teardown ==
    /\ hm.isActive
    /\ \E refSeen \in BOOLEAN : hm' = cleanup(hm, refSeen)
    /\ timers' = {}
    /\ UNCHANGED <<state, tempState, handPos, photos, particles, hoveredPhotoId,
                   onGestureUpdate, camera, lastGesture, pendingAge, seenRaw,
                   held, lastPredict, sceneVars>>

\* One rendered frame with the callbacks of the particle instances: they see
\* the props of the latest render (mode, hoveredPhotoId, data) and the camera
\* the rig has just moved.
SceneFrame(c, delta) ==
    /\ hm.videoRef
    /\ clock.frames < MaxFrames
    /\ Frame(c)
    /\ framing' = Framing(state)
    /\ clock' = [elapsedTime |-> clock.elapsedTime + delta,
                 frames |-> clock.frames + 1]
    /\ live' = [i \in 1..Len(particles) |->
                   ParticleInstance(particles[i], state, hoveredPhotoId, live[i],
                                    delta, clock.elapsedTime + delta, c)]
    /\ UNCHANGED <<hm, lastPredict, rig>>

SceneRender == \E c \in CamPositions, delta \in {40, 200} : SceneFrame(c, delta)

\* The timeout handler of useDebouncedState commits a mode.
SceneCommit ==
    /\ clock.frames < MaxFrames
    /\ \E m \in AppMode : state' = TimeoutHandler([value |-> m, due |-> 0])
    /\ UNCHANGED <<tempState, timers, handPos, photos, particles,
                   hoveredPhotoId, onGestureUpdate, camera, lastGesture,
                   pendingAge, seenRaw, held, hm, lastPredict, sceneVars>>

\* An upload, and the render of Visuals with the new array (the scatter draws
\* of one regeneration are taken equal).
SceneUpload ==
    /\ hm.videoRef
    /\ clock.frames < MaxFrames
    /\ \E k \in 0..(MaxPhotos - Len(photos)) :
           \E sc \in ScatterChoices :
               handlePhotoUpload(k, [i \in 1..(Len(photos) + k) |-> sc])
    /\ live' = Reconcile(particles, live, particles')
    /\ UNCHANGED <<hm, lastPredict, framing, clock, rig>>

SceneNext == SceneRender \/ SceneCommit \/ SceneUpload

\* One rendered frame, followed on the camera itself: the callback of
\* CameraRig with the props of the latest render.
RigRender ==
    /\ hm.videoRef
    /\ rig.frames < MaxFrames
    /\ rig' = CameraRigFrame(state, handPos, rig)
    /\ UNCHANGED <<appVars, hm, lastPredict, live, framing, clock>>

RigNext ==
    \/ Sample \/ Elapse \/ Fire \/ RigRender
    \/ Resolved \/ Created \/ Answered \/ LoadedData

Next ==
    \/ Sample \/ Elapse \/ Fire \/ Render \/ Upload
    \/ Resolved \/ Created \/ Answered \/ LoadedData

\* The running application, every recognition succeeding.
Spec == Init /\ [][Next]_vars

\* The application without uploads, with the camera followed in numbers.
RigSpec == Init /\ [][RigNext]_vars

\* The running application with recognitions that throw.
FaultSpec == Init /\ [][Next \/ Throw]_vars

\* The scene up to its frame number MaxFrames: frames with the particle
\* transforms, commits of any mode and uploads.  (The other specifications
\* leave the scene variables aside.)
SceneSpec == Init /\ [][SceneNext]_vars

\* The application with throwing recognitions and its unmount at any moment.
LifeSpec == Init /\ [][Next \/ Throw \/ Teardown]_vars

\* =================================================================== claims

\* C1 - Debounce safety: the committed mode changes only to the pending
\* value, and only at a moment when that value has been pending without
\* interruption for at least the settle delay.  (So of raw decisions A, B, A
\* arriving within less than the delay, B is never committed.)
DebounceSafety ==
    [][state' # state => (state' = tempState /\ pendingAge >= Delay)]_vars

\* A commit changed the mode, after a different decision had been pending.
DebounceSafetyWitness ==
    /\ state = ZOOM
    /\ SCATTER \in seenRaw
    /\ timers = {}
    /\ pendingAge = Delay

\* C2 - Debounce liveness: the commit of the pending value is due exactly one
\* settle delay after the value became pending, however many samples
\* repeating the decision arrived meanwhile; once that delay has passed the
\* value is committed (or its commit is due at this very instant).
DebounceLiveness ==
    /\ pendingAge < Delay =>
          \E t \in timers : t.value = tempState /\ t.due = Delay - pendingAge
    /\ pendingAge >= Delay =>
          \/ state = tempState
          \/ \E t \in timers : t.value = tempState /\ t.due = 0

\* Open-hand samples were repeated during the delay and scatter is committed.
DebounceLivenessWitness ==
    /\ state = SCATTER
    /\ tempState = SCATTER
    /\ lastGesture = "Open_Palm"
    /\ held >= 1
    /\ timers = {}

\* C3 - Timer restart, last writer wins: at most one delayed commit is
\* outstanding and it carries the pending value; whenever the pending value
\* changes, the outstanding commit is replaced by one for the new value with
\* the full settle delay.
LastWriterWins ==
    /\ [](Cardinality(timers) <= 1 /\ \A t \in timers : t.value = tempState)
    /\ [][tempState' # tempState =>
             timers' = { [value |-> tempState', due |-> Delay] }]_vars

\* Scatter was pending and was overwritten by zoom before it was committed
\* (tree was never a raw decision, so the mode never left its initial value).
LastWriterWinsWitness ==
    /\ state = TREE
    /\ tempState = ZOOM
    /\ seenRaw = {SCATTER, ZOOM}
    /\ \E t \in timers : t.due < Delay

\* A closed-hand sample is delivered.
ClosedFistSample == \E lm \in HandPoses : predict(1, "Closed_Fist", lm)

\* C4 - Grab rule: when a closed-hand sample arrives while the committed and
\* the pending mode are tree and a focus id is set, the value to be committed
\* next (the pending value) is zoom.
GrabRule ==
    [][(state = TREE /\ tempState = TREE /\ hoveredPhotoId # NoId
           /\ ClosedFistSample) => tempState' = ZOOM]_vars

\* C5 - Dismiss rule: when a closed-hand sample arrives while the committed
\* mode is zoom, the value to be committed next is tree, whatever the focus
\* id: the pending value and every outstanding commit are tree.
DismissRule ==
    [][(state = ZOOM /\ ClosedFistSample) =>
          (tempState' = TREE /\ \A t \in timers' : t.value = TREE)]_vars

\* Zoomed with a focus id set, a closed-hand sample has made tree pending.
DismissRuleWitness ==
    /\ state = ZOOM
    /\ hoveredPhotoId # NoId
    /\ lastGesture = "Closed_Fist"
    /\ tempState = TREE
    /\ timers # {}

\* C6 - The closed-hand rule reads the current focus id: the decision of a
\* closed-hand sample is the one the rule gives for the focus id as the
\* Focus Selector last wrote it.
ClosedHandReadsCurrentFocus ==
    [][ClosedFistSample =>
          tempState' = IF tempState # ZOOM /\ hoveredPhotoId # NoId
                       THEN ZOOM ELSE TREE]_vars

\* C7 - The raw decision of a sample is scatter for open-hand, zoom for pinch
\* and tree for pointing, unknown or any other category, whatever the
\* pending mode, the committed mode and the focus id.
FixedRows ==
    /\ [][(<<tempState, lastGesture, handPos, held>>' # <<tempState, lastGesture, handPos, held>>
              /\ Sample) =>
            /\ lastGesture' \in GestureCategories
            /\ lastGesture' = "Open_Palm" => tempState' = SCATTER
            /\ lastGesture' = "Pinch" => tempState' = ZOOM
            /\ lastGesture' \in {"Pointing_Up", "Unknown"} => tempState' = TREE]_vars
    /\ [](\A g \in ModelGestures \ GestureCategories :
             RawDecision(g, tempState, hoveredPhotoId) = TREE)

\* A pointing sample has made tree pending while zoomed on a focused photo.
FixedRowsWitness ==
    /\ lastGesture = "Pointing_Up"
    /\ tempState = TREE
    /\ state = ZOOM
    /\ hoveredPhotoId # NoId
    /\ pendingAge = 0

\* C8 - The committed mode is one of tree, scatter, zoom; it is tree as long
\* as no raw decision was produced and otherwise tree (the initial value) or
\* a raw decision produced by an earlier sample.
CommittedWasSeen ==
    /\ state \in AppMode
    /\ state = TREE \/ state \in seenRaw

\* Zoom is committed, and tree was never a raw decision.
CommittedWasSeenWitness ==
    /\ state = ZOOM
    /\ seenRaw = {ZOOM}

\* C9 - Focus selection rule: a frame in tree or scatter mode with at least
\* one photo sets the focus id to the first photo (in array order) whose
\* normalised rest position for the mode has the greatest dot product with
\* the normalised camera position, if that product exceeds 0.65, and clears
\* it otherwise.
FocusSelection ==
    [][(state # ZOOM
           /\ (\E i \in 1..Len(particles) : particles[i].type = "photo")
           /\ Render) =>
          LET P       == { i \in 1..Len(particles) : particles[i].type = "photo" }
              pos(i)  == IF state = TREE THEN particles[i].treePos
                         ELSE particles[i].scatterPos
              d(i)    == Dot(camera', pos(i))
              IsMax(i) == \A j \in P : ~GtNorm(d(j), LenSq(pos(j)), d(i), LenSq(pos(i)))
              first   == CHOOSE i \in P : IsMax(i) /\ \A j \in P : IsMax(j) => i <= j
          IN  hoveredPhotoId' =
                 IF OverThreshold(d(first), LenSq(camera'), LenSq(pos(first)))
                 THEN particles[first].id ELSE NoId]_vars

\* In scatter mode (zoom never was a decision) two photos lie in the same
\* direction, straight before the camera, and the first one is the focus.
FocusSelectionWitness ==
    /\ state = SCATTER
    /\ ZOOM \notin seenRaw
    /\ Len(photos) = 2
    /\ particles[1].scatterPos = particles[2].scatterPos
    /\ camera = <<0, 0, 5>>
    /\ particles[1].scatterPos = <<0, 0, 10>>
    /\ hoveredPhotoId = particles[1].id

\* C10 - Focus freeze: a step that starts and ends with the committed mode
\* zoom leaves the focus id unchanged.
FocusFreeze ==
    [][(state = ZOOM /\ state' = ZOOM) => hoveredPhotoId' = hoveredPhotoId]_vars

\* Zoomed on the first photo, which was selected in tree mode (scatter never
\* was a decision); the camera has since left the place where it selects it.
FocusFreezeWitness ==
    /\ state = ZOOM
    /\ SCATTER \notin seenRaw
    /\ hoveredPhotoId = <<"p-photo", 0>>
    /\ camera = <<0, 0, 5>>

\* C13 - Teardown: once the cleanup has run, predict is never left scheduled,
\* no gesture sample is delivered any more, and when no asynchronous step of
\* init or startCamera is in flight any longer, the camera stream is stopped
\* and the recognizer handle is released.
TeardownReleases ==
    /\ [](~hm.isActive =>
            /\ hm.pc # "loop"
            /\ hm.pc \in {"idle", "failed"} =>
                   (hm.stream # "live" /\ hm.gestureRecognizer # "open"))
    /\ [][~hm.isActive => UNCHANGED <<lastPredict, lastGesture, tempState>>]_vars

\* C14 - Per-frame recognition failure: a predict whose recognition throws
\* delivers no sample, leaves the pending mode, the committed mode, the
\* outstanding timer and the hand position as they are, and leaves predict
\* scheduled for the next frame.
RecognitionFailure ==
    [][Throw => /\ UNCHANGED <<tempState, state, timers, handPos, lastGesture,
                               pendingAge, held>>
                /\ hm'.pc = "loop"
                /\ hm'.gestureRecognizer = "open" /\ hm'.videoRef]_vars

\* Recognition threw while SCATTER was freshly pending over TREE.
RecognitionFailureWitness ==
    /\ lastPredict = "threw"
    /\ tempState = SCATTER /\ state = TREE
    /\ pendingAge = 0 /\ timers # {}

\* C15 - Initialization failure is not fatal: a failed init or startCamera
\* records an error; with an error recorded no sample has been delivered, the
\* pending and the committed mode are tree, and frames are still rendered.
InitFailureNotFatal ==
    /\ hm.pc = "failed" => hm.error # NoError
    /\ hm.error # NoError =>
           /\ lastPredict = "none" /\ lastGesture = "none"
           /\ state = TREE /\ tempState = TREE
           /\ ENABLED Render

\* The camera was refused, and frames have picked a focus photo.
InitFailureNotFatalWitness ==
    /\ hm.error = "Camera access denied."
    /\ hm.isLoaded
    /\ hoveredPhotoId # NoId
    /\ pendingAge = Delay

\* C16 - No hand detected: a processed frame without a hand delivers a
\* sample, with category Unknown, x 0.5, y 0.5, depth 0 and roll 0, whose raw
\* decision is tree.
NoHandDelivered ==
    [][(hm.pc = "loop" /\ lastPredict' # "threw"
          /\ predict(0, "None", CHOOSE lm \in HandPoses : TRUE))
          => /\ lastPredict' = "sample"
             /\ lastGesture' = "Unknown"
             /\ handPos' = [x |-> 500, y |-> 500, z |-> 0, rotation |-> 0]
             /\ tempState' = TREE]_vars

\* A frame without a hand followed an open palm: the pending mode went back
\* to tree and the hand position to the centre.
NoHandDeliveredWitness ==
    /\ lastPredict = "sample"
    /\ lastGesture = "Unknown"
    /\ handPos = [x |-> 500, y |-> 500, z |-> 0, rotation |-> 0]
    /\ SCATTER \in seenRaw
    /\ tempState = TREE /\ pendingAge = 0

\* C17 - Every delivered sample has x, y and depth inside [0, 1].
SampleRange ==
    lastGesture # "none" =>
        /\ handPos.x \in 0..1000
        /\ handPos.y \in 0..1000
        /\ handPos.z \in 0..1000

\* |a|
Abs(a) == IF a < 0 THEN -a ELSE a

\* C11 - Upload regeneration: when the photo list changes, the focus id is
\* unset and every particle instance has the transform of a newly mounted
\* one (nothing of the live transforms from before the change is kept).
UploadDiscards ==
    [][photos' # photos =>
          /\ hoveredPhotoId' = NoId
          /\ \A j \in 1..Len(particles') :
                 live'[j] = MountedGroup(particles'[j])]_vars

\* C12 - Zero photos: while the photo list is empty the focus id is unset,
\* and a frame rendered then in committed mode tree uses the orbit framing.
ZeroPhotos ==
    /\ [](Len(photos) = 0 => hoveredPhotoId = NoId)
    /\ [][(Len(photos) = 0 /\ state = TREE /\ clock'.frames # clock.frames)
             => framing'.kind = "orbit"]_vars

\* Frames were rendered without photos, the latest one in tree mode with a
\* camera that would focus a photo of the helix.
ZeroPhotosWitness ==
    /\ Len(photos) = 0
    /\ clock.frames = MaxFrames
    /\ state = TREE /\ framing = Framing(TREE)
    /\ camera = <<-18, -9, 14>>
    /\ hoveredPhotoId = NoId

\* C18 - Pose Blender convergence, for the distance a particle has to its
\* target before a frame taken as epsilon: a frame in tree or zoom mode (where
\* the target does not move) leaves the live scale and every coordinate of the
\* live position within that distance of the target.
BlendConverges ==
    [][(clock'.frames # clock.frames /\ state # SCATTER) =>
          \A i \in 1..Len(particles) :
              LET t == Target(particles[i], state, hoveredPhotoId,
                              clock'.elapsedTime)
              IN  /\ Abs(live'[i].scale - t.scale) <= Abs(live[i].scale - t.scale)
                  /\ \A k \in 1..3 :
                         Abs(live'[i].position[k] - t.pos[k])
                           <= Abs(live[i].position[k] - t.pos[k])]_vars

\* C19 - Two-tier blend rate: in a frame of delta ms the factor is 15 * delta
\* for the particle that is the focus photo while the committed mode is zoom
\* and 2.5 * delta for every other particle and in every other mode; position,
\* scale and (where it is blended) rotation are blended with that one factor.
TwoTierRate ==
    [][clock'.frames # clock.frames =>
          \A i \in 1..Len(particles) :
              LET d     == particles[i]
                  delta == clock'.elapsedTime - clock.elapsedTime
                  rate  == IF state = ZOOM /\ d.id = hoveredPhotoId
                           THEN 15 * delta ELSE (25 * delta) \div 10
                  t     == Target(d, state, hoveredPhotoId, clock'.elapsedTime)
                  spin  == IF d.type = "star" THEN delta \div 2 ELSE 0
              IN  /\ live'[i].position = LerpVector(live[i].position, t.pos, rate)
                  /\ live'[i].scale = Lerp(live[i].scale, t.scale, rate)
                  /\ ~(state = SCATTER /\ d.type = "photo") =>
                         live'[i].rotation =
                             << Lerp(live[i].rotation[1], t.rot[1], rate),
                                Lerp(live[i].rotation[2], t.rot[2], rate) + spin,
                                Lerp(live[i].rotation[3], t.rot[3], rate) >>]_vars

\* After a frame of 40 ms in tree mode, a frame of 40 ms in zoom blended the
\* selected photo with factor 0.6 and the other photo with factor 0.1.
TwoTierRateWitness ==
    /\ state = ZOOM /\ hoveredPhotoId = <<"p-photo", 0>>
    /\ Len(photos) = 2 /\ clock = [elapsedTime |-> 80, frames |-> 2]
    /\ live[1].scale = 3392
    /\ live[2].scale = 962

\* C20 - Target derivation by mode: a frame in tree mode blends every particle
\* toward its tree position, base rotation and base scale (times 1.3 for the
\* focus candidate); a frame in zoom blends the selected photo toward
\* (0, 0, 6), scale 5.0 and zero rotation, and every other particle toward its
\* scatter position times 3.5 in x and y and 40 further back in z, with base
\* scale and base rotation.
TargetDerivation ==
    [][(clock'.frames # clock.frames /\ state # SCATTER) =>
          \A i \in 1..Len(particles) :
              LET d     == particles[i]
                  delta == clock'.elapsedTime - clock.elapsedTime
                  speed == lerpSpeed(d, state, hoveredPhotoId, delta)
                  spin  == IF d.type = "star" THEN delta \div 2 ELSE 0
                  focus == d.id = hoveredPhotoId
                  pos   == IF state = TREE THEN Scaled(d.treePos, 1000)
                           ELSE IF focus THEN <<0, 0, 6000>>
                           ELSE << 3500 * d.scatterPos[1], 3500 * d.scatterPos[2],
                                   1000 * d.scatterPos[3] - 40000 >>
                  scale == IF state = TREE
                           THEN (IF focus THEN (13 * d.scale) \div 10 ELSE d.scale)
                           ELSE IF focus THEN 5000 ELSE d.scale
                  rot   == IF state = ZOOM /\ focus THEN <<0, 0, 0>> ELSE d.rotation
              IN  /\ live'[i].position = LerpVector(live[i].position, pos, speed)
                  /\ live'[i].scale = Lerp(live[i].scale, scale, speed)
                  /\ live'[i].rotation =
                         << Lerp(live[i].rotation[1], rot[1], speed),
                            Lerp(live[i].rotation[2], rot[2], speed) + spin,
                            Lerp(live[i].rotation[3], rot[3], speed) >>]_vars

\* A frame in zoom moved the selected photo toward (0, 0, 6) and pushed the
\* other photo back.
TargetDerivationWitness ==
    /\ state = ZOOM /\ hoveredPhotoId = <<"p-photo", 0>>
    /\ Len(photos) = 2 /\ clock = [elapsedTime |-> 80, frames |-> 2]
    /\ live[1].position = <<-3600, -3600, 6400>>
    /\ live[2].position[3] \in {-7500, -9100}
    /\ live[3].scale < 1000

\* Number of particles of the given types a run-length encoded array stands
\* for (the length of the array generateParticles returns, when all types).
RECURSIVE Population(_, _)
Population(parts, types) ==
    IF parts = << >> THEN 0
    ELSE (IF Head(parts).type \in types THEN Head(parts).count ELSE 0)
           + Population(Tail(parts), types)

\* C23 - Layout size: the particle array generated for a photo list (the
\* empty one included) holds COUNT + number of photos + 1 particles, exactly
\* one of them the star, and exactly one photo particle per photo, the i-th
\* named after index i - 1.
LayoutSize ==
    /\ Population(particles, {"photo", "ornament", "star"})
          = COUNT + Len(photos) + 1
    /\ Population(particles, {"star"}) = 1
    /\ Population(particles, {"photo"}) = Len(photos)
    /\ \A i \in 1..Len(photos) :
          particles[i].type = "photo" /\ particles[i].id = <<"p-photo", i - 1>>

\* An upload has regenerated the array for a non-empty photo list.
LayoutSizeWitness ==
    /\ Len(photos) >= 1
    /\ Population(particles, {"photo"}) = Len(photos)
    /\ Population(particles, {"ornament"}) = COUNT

\* C24 - Held-gesture stability: a sample that repeats the previous one
\* (same category, same coordinates and roll) leaves the pending mode, the
\* outstanding commit and its deadline as the previous delivery left them,
\* whatever the category, the pending and committed modes and the focus id.
HeldGestureStable ==
    [][(/\ lastGesture # "none"
        /\ lastGesture' = lastGesture
        /\ handPos' = handPos
        /\ hoveredPhotoId' = hoveredPhotoId
        /\ handleGestureUpdate([gesture |-> lastGesture,
                                x |-> handPos.x, y |-> handPos.y,
                                z |-> handPos.z, rotation |-> handPos.rotation]))
       => /\ tempState' = tempState
          /\ timers' = timers
          /\ pendingAge' = pendingAge]_vars

\* A closed hand is held over a focused photo outside zoom.
HeldGestureStableWitness ==
    /\ held >= 1
    /\ lastGesture = "Closed_Fist"
    /\ hoveredPhotoId # NoId
    /\ state # ZOOM
    /\ pendingAge > 0

NoDanglingFocus ==
    \/ hoveredPhotoId = NoId
    \/ \E i \in 1..Len(particles) :
          /\ particles[i].id = hoveredPhotoId
          /\ isPhoto(particles[i])

\* A photo is in focus in an array generated for more than one photo.
NoDanglingFocusWitness ==
    /\ hoveredPhotoId # NoId
    /\ Len(photos) > 1
    /\ Population(particles, {"photo"}) = Len(photos)

\* C27 - Unique candidate: the ids of the particle array are pairwise
\* distinct (the ornament run p-0 .. p-(COUNT-1) shares no prefix with the
\* photos and the star), so at most one particle is selected and at most
\* one highlighted, never one of each; a particle is selected only in zoom
\* and highlighted only outside zoom.
UniqueCandidate ==
    LET idx == 1..Len(particles)
        selected == {i \in idx :
                       isSelected(particles[i], state, hoveredPhotoId)}
        highlighted == {i \in idx :
                          isHighlighted(particles[i], state, hoveredPhotoId)}
    IN  /\ \A i, j \in idx :
              i # j => /\ particles[i].id # particles[j].id
                       /\ particles[i].id[1] # particles[j].id[1]
                            \/ (particles[i].count = 1 /\ particles[j].count = 1)
        /\ Cardinality(selected) <= 1
        /\ Cardinality(highlighted) <= 1
        /\ \A i \in selected \cup highlighted : particles[i].count = 1
        /\ selected = {} \/ highlighted = {}
        /\ selected # {} => state = ZOOM
        /\ highlighted # {} => state # ZOOM

\* Zoom is committed with one of several photos selected.
UniqueCandidateWitness ==
    /\ Len(photos) > 1
    /\ state = ZOOM
    /\ \E i \in 1..Len(particles) :
          isSelected(particles[i], state, hoveredPhotoId)

====
